---- MODULE Spec2Model ----
(***************************************************************************)
(* Model of src/server/util.ts of zipline: the migration bootstrap         *)
(* migrations(), and the usage report getStats().                          *)
(*                                                                         *)
(* Two specifications share the variables: SpecMig runs sequences of       *)
(* migrations() calls against a migration store, SpecStats runs getStats() *)
(* against a relational store of users and images.                         *)
(***************************************************************************)
EXTENDS Integers, Sequences, FiniteSets, TLC

VARIABLES
  \* ---- migrations(): the store and the process ----
  history,        \* applied-migration history recorded in the database
  dbExists,       \* whether the target database exists
  databaseUrl,    \* process.env.DATABASE_URL
  pc,             \* position of the migrations() call
  session,        \* the Migrate object: "none", "open" or "stopped"
  diagnostic,     \* diagnose.history?.diagnostic of the current call
  applyIssued,    \* migrate.applyMigrations() was called in the current call
  exitCode,       \* argument of process.exit, -1 while the process runs
  log,            \* what the logger received in the current call
  errorMsg,       \* error.message of the error caught in the current call
  failedStep,     \* the step whose await threw in the current call
  startHistory,   \* history when the current call started
  appliedInCall,  \* migrations applied by the current call
  appliedTimes,   \* how often each migration of the lineage was applied
  calls,          \* number of migrations() calls so far
  \* ---- getStats(): the store and the call frame ----
  users,          \* user table: id -> username
  images,         \* image table: id -> [userId, mimetype, views]
  dsSize,         \* what datasource.fullSize() reports
  gpc,            \* position of the getStats() call
  frame,          \* the local variables of the getStats() call
  report,         \* the value getStats() returned, <<>> before
  failedQuery,    \* the await of getStats() that threw, "none" otherwise
  parked,         \* getStats() calls suspended at an await while another runs
  \* ---- the shorten handler: the store and the requests ----
  urls,           \* url table: the records prisma.url.create stored
  invisUrls,      \* the records createInvisURL stored
  reqs,           \* request id -> position, locals and response of its handler
  notified,       \* requests for which sendShorten was called
  discordShorten  \* config.discord?.shorten is set

migVars   == <<history, dbExists, databaseUrl, pc, session, diagnostic,
               applyIssued, exitCode, log, errorMsg, failedStep,
               startHistory, appliedInCall, appliedTimes, calls>>
statsVars == <<users, images, dsSize, gpc, frame, report, failedQuery, parked>>
shortenVars == <<urls, invisUrls, reqs, notified, discordShorten>>
vars      == <<migVars, statsVars, shortenVars>>

----------------------------------------------------------------------------
(* Bounds *)
NumMigrations == 3      \* length of the expected lineage
MaxCalls      == 3      \* migrations() calls in one behaviour
MaxUsers      == 2      \* user ids 1..MaxUsers
MaxImages     == 3      \* image ids 1..MaxImages
MaxViews      == 1      \* per-image view counter 0..MaxViews
MaxSize       == 1      \* datasource size 0..MaxSize
ConcMaxUsers  == 2      \* users in the store of the interleaved specifications
ConcMaxImages == 2      \* images in the store of the interleaved specifications
NumRequests   == 2      \* shorten requests in one behaviour

----------------------------------------------------------------------------
(* Generic helpers *)

IsPrefix(s, t) == Len(s) <= Len(t) /\ SubSeq(t, 1, Len(s)) = s

Range(s) == {s[i] : i \in 1..Len(s)}

\* all orders in which the rows of a result set can be returned
Perms(S) == {s \in [1..Cardinality(S) -> S] : Range(s) = S}

\* String.prototype.startsWith on character sequences
StartsWith(s, p) == Len(s) >= Len(p) /\ SubSeq(s, 1, Len(p)) = p

----------------------------------------------------------------------------
(* The call frame of getStats() *)

Null == -1      \* null / not yet assigned, for the numeric locals

NoFrame == [size |-> Null, byUser |-> <<>>, count_users |-> Null,
            count_by_user |-> <<>>, i |-> 0, count |-> Null,
            views |-> Null, typesCount |-> <<>>]

----------------------------------------------------------------------------
(* The migration store as the Prisma migration engine presents it *)

\* the expected lineage: the migrations directory, in order
Lineage == [i \in 1..NumMigrations |-> i]

\* a migration recorded in a database that the migrations directory lacks
ForeignMigration == 0

\* histories a database can hold when the process starts
Histories ==
  UNION {{h \in [1..n -> Range(Lineage) \cup {ForeignMigration}] :
            \A i, j \in 1..n : i # j => h[i] # h[j]} : n \in 0..NumMigrations}

\* a faulty engine: pending migrations applied newest first
Pending_NewestFirst(h) ==
  LET p == SelectSeq(Lineage, LAMBDA m : m \notin Range(h))
  IN [k \in 1..Len(p) |-> p[Len(p) + 1 - k]]

\* the migrations of the lineage the database has not recorded, in order
Pending(h) == SelectSeq(Lineage, LAMBDA m : m \notin Range(h))

\* diagnoseMigrationHistory().history?.diagnostic
DiagnosticOf(h) ==
  IF h = Lineage THEN "undefined"
  ELSE IF IsPrefix(h, Lineage) THEN "databaseIsBehind"
  ELSE IF IsPrefix(Lineage, h) THEN "migrationsDirectoryIsBehind"
  ELSE "historiesDiverge"

\* error.message of what an awaited engine call can throw
P1001 == <<"P", "1", "0", "0", "1">>

ErrorMessages ==
  { P1001 \o <<":">>, P1001, <<"P", "1", "0", "0", "0">>,
    <<"x">> \o P1001, <<>> }

DatabaseUrls == {"postgres://a/db", "postgres://b/db"}

----------------------------------------------------------------------------
(* migrations() *)

LogEntry(level, msg, arg) == [level |-> level, msg |-> msg, arg |-> arg]

UnreachableEntry(url) ==
  LogEntry("error", "Unable to connect to database, check your database connection", <<url>>)
GenericEntry == LogEntry("error", "Failed to migrate database... exiting...", <<>>)
DetailEntry(msg) == LogEntry("error", "error", msg)

\* a plausible slip: no classification, every error reported as generic
CatchLog_AlwaysGeneric(msg, url) == <<GenericEntry, DetailEntry(msg)>>

\* what the catch block logs for an error with message msg
CatchLog(msg, url) ==
  IF StartsWith(msg, P1001) THEN <<UnreachableEntry(url)>>
  ELSE <<GenericEntry, DetailEntry(msg)>>

\* a plausible slip: process.exit(1) placed in the else branch only
CatchBlock_ExitInElseOnly(msg, step, logSoFar) ==
  /\ errorMsg' = msg
  /\ failedStep' = step
  /\ log' = logSoFar \o CatchLog(msg, databaseUrl)
  /\ exitCode' = IF StartsWith(msg, P1001) THEN -1 ELSE 1
  /\ pc' = IF StartsWith(msg, P1001) THEN "returned" ELSE "exited"

\* a plausible slip: the catch block retries the bootstrap instead of exiting
CatchBlock_Retry(msg, step, logSoFar) ==
  /\ errorMsg' = msg
  /\ failedStep' = step
  /\ log' = SubSeq(logSoFar, 1, 2)
  /\ exitCode' = -1
  /\ pc' = "ensure"

\* the catch block: classify, log, process.exit(1)
CatchBlock(msg, step, logSoFar) ==
  /\ errorMsg' = msg
  /\ failedStep' = step
  /\ log' = logSoFar \o CatchLog(msg, databaseUrl)
  /\ exitCode' = 1
  /\ pc' = "exited"

\* the getStats() side at rest, with an empty store
StatsIdle ==
  /\ users = <<>>
  /\ images = <<>>
  /\ dsSize = 0
  /\ gpc = "idle"
  /\ frame = NoFrame
  /\ report = <<>>
  /\ failedQuery = "none"
  /\ parked = <<>>

\* the shorten handler at rest: no request, an empty url table
ShortenIdle ==
  /\ urls = {}
  /\ invisUrls = {}
  /\ reqs = <<>>
  /\ notified = {}
  /\ discordShorten = FALSE

InitMig ==
  /\ history \in Histories
  /\ dbExists \in BOOLEAN
  /\ (~dbExists => history = <<>>)
  /\ databaseUrl \in DatabaseUrls
  /\ pc = "idle"
  /\ session = "none"
  /\ diagnostic = "none"
  /\ applyIssued = FALSE
  /\ exitCode = -1
  /\ log = <<>>
  /\ errorMsg = <<>>
  /\ failedStep = "none"
  /\ startHistory = history
  /\ appliedInCall = 0
  /\ appliedTimes = [m \in Range(Lineage) |-> 0]
  /\ calls = 0
  /\ StatsIdle
  /\ ShortenIdle

\* a plausible slip: ensureDatabaseExists not awaited, the diagnosis is issued
\* at once
MigStart_EnsureNotAwaited ==
  /\ pc \in {"idle", "returned", "exited"}
  /\ calls < MaxCalls
  /\ calls' = calls + 1
  /\ pc' = "diagnose"
  /\ session' = "open"
  /\ diagnostic' = "none"
  /\ applyIssued' = FALSE
  /\ exitCode' = -1
  /\ log' = << LogEntry("debug", "establishing database connection", <<>>),
               LogEntry("debug", "ensuring database exists, if not creating database - may error if no permissions", <<>>) >>
  /\ errorMsg' = <<>>
  /\ failedStep' = "none"
  /\ startHistory' = history
  /\ appliedInCall' = 0
  /\ UNCHANGED <<history, dbExists, databaseUrl, appliedTimes>>
  /\ UNCHANGED <<statsVars, shortenVars>>

\* a call of migrations() in a starting process: new Migrate(...) and the
\* call of ensureDatabaseExists
MigStart ==
  /\ pc \in {"idle", "returned", "exited"}
  /\ calls < MaxCalls
  /\ calls' = calls + 1
  /\ pc' = "ensure"
  /\ session' = "open"
  /\ diagnostic' = "none"
  /\ applyIssued' = FALSE
  /\ exitCode' = -1
  /\ log' = << LogEntry("debug", "establishing database connection", <<>>),
               LogEntry("debug", "ensuring database exists, if not creating database - may error if no permissions", <<>>) >>
  /\ errorMsg' = <<>>
  /\ failedStep' = "none"
  /\ startHistory' = history
  /\ appliedInCall' = 0
  /\ UNCHANGED <<history, dbExists, databaseUrl, appliedTimes>>
  /\ UNCHANGED <<statsVars, shortenVars>>

\* ensureDatabaseExists resolves; diagnoseMigrationHistory is called
EnsureOk ==
  /\ pc = "ensure"
  /\ dbExists' = TRUE
  /\ pc' = "diagnose"
  /\ UNCHANGED <<history, databaseUrl, session, diagnostic, applyIssued,
                 exitCode, log, errorMsg, failedStep, startHistory,
                 appliedInCall, appliedTimes, calls>>
  /\ UNCHANGED <<statsVars, shortenVars>>

\* ensureDatabaseExists rejects
EnsureFail ==
  /\ pc = "ensure"
  /\ \E msg \in ErrorMessages : CatchBlock(msg, "ensure", log)
  /\ UNCHANGED <<history, dbExists, databaseUrl, session, diagnostic,
                 applyIssued, startHistory, appliedInCall, appliedTimes, calls>>
  /\ UNCHANGED <<statsVars, shortenVars>>

\* a plausible slip: apply whenever the database is not up to date
ShouldApply_UnlessUpToDate(d) == d # "undefined"

\* a plausible slip: apply without looking at the diagnosis
ShouldApply_Always(d) == TRUE

\* diagnose.history?.diagnostic === 'databaseIsBehind'
ShouldApply(d) == d = "databaseIsBehind"

\* diagnoseMigrationHistory resolves; the branch on the diagnostic
DiagnoseOk ==
  /\ pc = "diagnose"
  /\ diagnostic' = DiagnosticOf(history)
  /\ IF ShouldApply(diagnostic')
       THEN /\ log' = log \o << LogEntry("debug", "database is behind, attempting to migrate", <<>>),
                                LogEntry("debug", "migrating database", <<>>) >>
            /\ applyIssued' = TRUE
            /\ pc' = "apply"
            /\ UNCHANGED session
       ELSE /\ log' = Append(log, LogEntry("debug", "exiting migrations engine - database is up to date", <<>>))
            /\ session' = "stopped"
            /\ pc' = "returned"
            /\ UNCHANGED applyIssued
  /\ UNCHANGED <<history, dbExists, databaseUrl, exitCode, errorMsg,
                 failedStep, startHistory, appliedInCall, appliedTimes, calls>>
  /\ UNCHANGED <<statsVars, shortenVars>>

\* diagnoseMigrationHistory rejects
DiagnoseFail ==
  /\ pc = "diagnose"
  /\ \E msg \in ErrorMessages : CatchBlock(msg, "diagnose", log)
  /\ UNCHANGED <<history, dbExists, databaseUrl, session, diagnostic,
                 applyIssued, startHistory, appliedInCall, appliedTimes, calls>>
  /\ UNCHANGED <<statsVars, shortenVars>>

\* the engine applies the next pending migration of the running apply call
ApplyOne ==
  /\ pc = "apply"
  /\ Pending(history) # <<>>
  /\ LET m == Head(Pending(history)) IN
       /\ history' = Append(history, m)
       /\ appliedTimes' = [appliedTimes EXCEPT ![m] = @ + 1]
  /\ appliedInCall' = appliedInCall + 1
  /\ UNCHANGED <<dbExists, databaseUrl, pc, session, diagnostic, applyIssued,
                 exitCode, log, errorMsg, failedStep, startHistory, calls>>
  /\ UNCHANGED <<statsVars, shortenVars>>

\* the finally block of the apply
FinallyLog == Append(log, LogEntry("info", "finished migrating database", <<>>))

\* applyMigrations resolves: finally block, normal return
ApplyDone ==
  /\ pc = "apply"
  /\ Pending(history) = <<>>
  /\ session' = "stopped"
  /\ log' = FinallyLog
  /\ pc' = "returned"
  /\ UNCHANGED <<history, dbExists, databaseUrl, diagnostic, applyIssued,
                 exitCode, errorMsg, failedStep, startHistory, appliedInCall,
                 appliedTimes, calls>>
  /\ UNCHANGED <<statsVars, shortenVars>>

\* a plausible slip: the failed apply is undone before exiting
ApplyFail_Rollback ==
  /\ pc = "apply"
  /\ session' = "stopped"
  /\ history' = startHistory
  /\ \E msg \in ErrorMessages : CatchBlock(msg, "apply", FinallyLog)
  /\ UNCHANGED <<dbExists, databaseUrl, diagnostic, applyIssued,
                 startHistory, appliedInCall, appliedTimes, calls>>
  /\ UNCHANGED <<statsVars, shortenVars>>

\* applyMigrations rejects: finally block, then the catch block
ApplyFail ==
  /\ pc = "apply"
  /\ session' = "stopped"
  /\ \E msg \in ErrorMessages : CatchBlock(msg, "apply", FinallyLog)
  /\ UNCHANGED <<history, dbExists, databaseUrl, diagnostic, applyIssued,
                 startHistory, appliedInCall, appliedTimes, calls>>
  /\ UNCHANGED <<statsVars, shortenVars>>

NextMig ==
  \/ MigStart
  \/ EnsureOk
  \/ EnsureFail
  \/ DiagnoseOk
  \/ DiagnoseFail
  \/ ApplyOne
  \/ ApplyDone
  \/ ApplyFail

----------------------------------------------------------------------------
(* The relational store and the datasource getStats() reads *)

UserIds   == 1..MaxUsers
Usernames == {"A", "B"}
Mimetypes == {"png", "json"}

\* user tables: id -> username
UserTables == UNION {[S -> Usernames] : S \in SUBSET UserIds}

\* image rows in a fixed order, to list each table once
RowRank(r) ==
  (r.userId * 2 + (IF r.mimetype = "png" THEN 0 ELSE 1)) * (MaxViews + 1) + r.views

\* image tables over the users of u; every image references a user.
\* getStats never reads the id of an image, so of the tables that differ
\* only in which id carries which row, the one with ranked rows is taken
ImageTables(u) ==
  UNION {{t \in [1..n -> [userId : DOMAIN u, mimetype : Mimetypes, views : 0..MaxViews]] :
            \A k \in 1..(n - 1) : RowRank(t[k]) <= RowRank(t[k + 1])} :
           n \in 0..MaxImages}

\* prisma.image.groupBy({ by: ['userId'], _count: { _all: true } })
GroupByUserId(img) ==
  {[userId |-> u, count |-> Cardinality({i \in DOMAIN img : img[i].userId = u})] :
     u \in {img[i].userId : i \in DOMAIN img}}

\* prisma.image.groupBy({ by: ['mimetype'], _count: { mimetype: true } })
GroupByMimetype(img) ==
  {[mimetype |-> t, count |-> Cardinality({i \in DOMAIN img : img[i].mimetype = t})] :
     t \in {img[i].mimetype : i \in DOMAIN img}}

RECURSIVE SumViews(_, _)
SumViews(img, ids) ==
  IF ids = {} THEN 0
  ELSE LET i == CHOOSE x \in ids : TRUE IN img[i].views + SumViews(img, ids \ {i})

\* prisma.image.aggregate({ _sum: { views: true } })._sum.views
AggregateViews(img) ==
  IF DOMAIN img = {} THEN Null ELSE SumViews(img, DOMAIN img)

\* bytesToHuman of lib/utils/bytes, for sizes below one kilobyte
bytesToHuman(n) == [value |-> n, unit |-> "B"]

----------------------------------------------------------------------------
(* getStats() *)

\* a plausible slip: the comparator written ascending
CompareCount_Ascending(a, b) == a.count - b.count

\* the comparator (a, b) => b.count - a.count
CompareCount(a, b) == b.count - a.count

\* a sort that is not stable: x goes in front of the elements equal to it
InsertSorted_TiesInFront(x, s) ==
  LET later == {k \in 1..Len(s) : CompareCount(s[k], x) >= 0}
      p == IF later = {} THEN Len(s) + 1
           ELSE CHOOSE k \in later : \A j \in later : k <= j
  IN SubSeq(s, 1, p - 1) \o <<x>> \o SubSeq(s, p, Len(s))

\* Array.prototype.sort: x goes behind every element that does not compare
\* greater than it
InsertSorted(x, s) ==
  LET later == {k \in 1..Len(s) : CompareCount(s[k], x) > 0}
      p == IF later = {} THEN Len(s) + 1
           ELSE CHOOSE k \in later : \A j \in later : k <= j
  IN SubSeq(s, 1, p - 1) \o <<x>> \o SubSeq(s, p, Len(s))

RECURSIVE SortByCount(_)
SortByCount(s) ==
  IF s = <<>> THEN <<>>
  ELSE InsertSorted(s[Len(s)], SortByCount(SubSeq(s, 1, Len(s) - 1)))

\* a plausible slip: the sum used without the ?? 0 default
ViewsOrZero_NoDefault(v) == v

\* views?._sum?.views ?? 0
ViewsOrZero(v) == IF v = Null THEN 0 ELSE v

\* a plausible slip: the loop stops one row early
TypesCountOf_OffByOne(rows) ==
  [k \in 1..(Len(rows) - 1) |-> [mimetype |-> rows[k].mimetype, count |-> rows[k].count]]

\* the loop that copies the grouping rows into types_count
TypesCountOf(rows) ==
  [k \in 1..Len(rows) |-> [mimetype |-> rows[k].mimetype, count |-> rows[k].count]]

\* the returned object
ReportOf(f, rows) ==
  [size          |-> bytesToHuman(f.size),
   size_num      |-> f.size,
   count         |-> f.count,
   count_by_user |-> SortByCount(f.count_by_user),
   count_users   |-> f.count_users,
   views_count   |-> ViewsOrZero(f.views),
   types_count   |-> SortByCount(TypesCountOf(rows))]

MigIdle ==
  /\ history = <<>>
  /\ dbExists = FALSE
  /\ databaseUrl = "postgres://a/db"
  /\ pc = "idle"
  /\ session = "none"
  /\ diagnostic = "none"
  /\ applyIssued = FALSE
  /\ exitCode = -1
  /\ log = <<>>
  /\ errorMsg = <<>>
  /\ failedStep = "none"
  /\ startHistory = <<>>
  /\ appliedInCall = 0
  /\ appliedTimes = [m \in Range(Lineage) |-> 0]
  /\ calls = 0

InitStats ==
  /\ users \in UserTables
  /\ images \in ImageTables(users)
  /\ dsSize \in 0..MaxSize
  /\ gpc = "idle"
  /\ frame = NoFrame
  /\ report = <<>>
  /\ failedQuery = "none"
  /\ parked = <<>>
  /\ MigIdle
  /\ ShortenIdle

\* getStats is called: datasource.fullSize() is issued
StatsStart ==
  /\ gpc \in {"idle", "done", "failed"}
  /\ gpc' = "size"
  /\ frame' = NoFrame
  /\ report' = <<>>
  /\ failedQuery' = "none"
  /\ UNCHANGED <<users, images, dsSize, migVars, parked, shortenVars>>

\* fullSize resolves; image.groupBy by userId is issued
SizeDone ==
  /\ gpc = "size"
  /\ frame' = [frame EXCEPT !.size = dsSize]
  /\ gpc' = "byUser"
  /\ UNCHANGED <<users, images, dsSize, report, failedQuery, migVars, parked, shortenVars>>

\* the grouping by userId resolves, rows in any order; user.count is issued
ByUserDone ==
  /\ gpc = "byUser"
  /\ \E rows \in Perms(GroupByUserId(images)) :
       frame' = [frame EXCEPT !.byUser = rows]
  /\ gpc' = "countUsers"
  /\ UNCHANGED <<users, images, dsSize, report, failedQuery, migVars, parked, shortenVars>>

\* user.count resolves; the loop starts: the first findFirst, or with no
\* rows image.count, is issued
CountUsersDone ==
  /\ gpc = "countUsers"
  /\ frame' = [frame EXCEPT !.count_users = Cardinality(DOMAIN users),
                            !.count_by_user = <<>>, !.i = 0]
  /\ gpc' = IF Len(frame.byUser) = 0 THEN "count" ELSE "lookup"
  /\ UNCHANGED <<users, images, dsSize, report, failedQuery, migVars, parked, shortenVars>>

\* user.findFirst for byUser[i] resolves: push, ++i, next lookup or
\* image.count; a null user makes user.username throw
LookupDone ==
  /\ gpc = "lookup"
  /\ LET row == frame.byUser[frame.i + 1] IN
       IF row.userId \in DOMAIN users
         THEN /\ frame' = [frame EXCEPT
                    !.count_by_user = Append(@, [username |-> users[row.userId],
                                                 count |-> row.count]),
                    !.i = @ + 1]
              /\ gpc' = IF frame.i + 1 = Len(frame.byUser) THEN "count" ELSE "lookup"
              /\ UNCHANGED failedQuery
         ELSE /\ gpc' = "failed"
              /\ frame' = NoFrame
              /\ failedQuery' = "user.username"
  /\ UNCHANGED <<users, images, dsSize, report, migVars, parked, shortenVars>>

\* image.count resolves; image.aggregate is issued
CountDone ==
  /\ gpc = "count"
  /\ frame' = [frame EXCEPT !.count = Cardinality(DOMAIN images)]
  /\ gpc' = "views"
  /\ UNCHANGED <<users, images, dsSize, report, failedQuery, migVars, parked, shortenVars>>

\* a plausible slip: reading the view counters bumps them
ViewsDone_CountsARead ==
  /\ gpc = "views"
  /\ frame' = [frame EXCEPT !.views = AggregateViews(images)]
  /\ images' = [i \in DOMAIN images |->
                  [images[i] EXCEPT !.views = IF @ < MaxViews THEN @ + 1 ELSE @]]
  /\ gpc' = "types"
  /\ UNCHANGED <<users, dsSize, report, failedQuery, migVars, parked, shortenVars>>

\* image.aggregate resolves; image.groupBy by mimetype is issued
ViewsDone ==
  /\ gpc = "views"
  /\ frame' = [frame EXCEPT !.views = AggregateViews(images)]
  /\ gpc' = "types"
  /\ UNCHANGED <<users, images, dsSize, report, failedQuery, migVars, parked, shortenVars>>

\* the grouping by mimetype resolves, rows in any order; the report is
\* assembled, sorted and returned
TypesDone ==
  /\ gpc = "types"
  /\ \E rows \in Perms(GroupByMimetype(images)) :
       /\ frame' = [frame EXCEPT !.typesCount = rows]
       /\ report' = <<ReportOf(frame, rows)>>
  /\ gpc' = "done"
  /\ UNCHANGED <<users, images, dsSize, failedQuery, migVars, parked, shortenVars>>

\* a plausible slip: a rejected query is caught and what was gathered so
\* far is returned
QueryFail_PartialReport ==
  /\ gpc \in {"size", "byUser", "countUsers", "lookup", "count", "views", "types"}
  /\ gpc' = "failed"
  /\ frame' = NoFrame
  /\ failedQuery' = gpc
  /\ report' = <<ReportOf(frame, frame.typesCount)>>
  /\ UNCHANGED <<users, images, dsSize, migVars, parked, shortenVars>>

\* an awaited query rejects: getStats rejects without a report, its locals
\* are gone
QueryFail ==
  /\ gpc \in {"size", "byUser", "countUsers", "lookup", "count", "views", "types"}
  /\ gpc' = "failed"
  /\ frame' = NoFrame
  /\ failedQuery' = gpc
  /\ UNCHANGED <<users, images, dsSize, report, migVars, parked, shortenVars>>

\* a getStats() call at rest
IdleCall == [gpc |-> "idle", frame |-> NoFrame, report |-> <<>>, failedQuery |-> "none"]

\* the running call with its locals, as it is suspended at an await
RunningCall == [gpc |-> gpc, frame |-> frame, report |-> report, failedQuery |-> failedQuery]

\* the stores of the interleaved specifications: few rows, the view
\* counters and the datasource size at the ends of their ranges only
ConcImageTables(u) ==
  {t \in ImageTables(u) :
     /\ Len(t) <= ConcMaxImages
     /\ \A k \in 1..Len(t) : t[k].views \in {0, MaxViews}}

InitConc ==
  /\ users \in {u \in UserTables : DOMAIN u \subseteq 1..ConcMaxUsers}
  /\ images \in ConcImageTables(users)
  /\ dsSize = MaxSize
  /\ gpc = "idle"
  /\ frame = NoFrame
  /\ report = <<>>
  /\ failedQuery = "none"
  /\ parked = <<IdleCall>>
  /\ MigIdle
  /\ ShortenIdle

\* a plausible slip: count_by_user declared outside the function, one array
\* for all calls
Switch_SharedArray ==
  /\ parked # <<>>
  /\ gpc' = parked[1].gpc
  /\ frame' = [parked[1].frame EXCEPT !.count_by_user = frame.count_by_user]
  /\ report' = parked[1].report
  /\ failedQuery' = parked[1].failedQuery
  /\ parked' = <<RunningCall>>
  /\ UNCHANGED <<users, images, dsSize, migVars, shortenVars>>

\* the event loop at an await: the running call is suspended with its
\* locals and the other call resumes with its own
Switch ==
  /\ parked # <<>>
  /\ gpc' = parked[1].gpc
  /\ frame' = parked[1].frame
  /\ report' = parked[1].report
  /\ failedQuery' = parked[1].failedQuery
  /\ parked' = <<RunningCall>>
  /\ UNCHANGED <<users, images, dsSize, migVars, shortenVars>>

NextStats ==
  \/ StatsStart
  \/ SizeDone
  \/ ByUserDone
  \/ CountUsersDone
  \/ LookupDone
  \/ CountDone
  \/ ViewsDone
  \/ TypesDone
  \/ QueryFail

----------------------------------------------------------------------------------------------------------------------------------------
(* The shorten handler *)

Absent == "(absent)"     \* a header or body field that is not there

\* the users the handler can authenticate; the token of user i is i
ShortenUsers == <<"A", "B">>
NoUser == 0

\* req.headers.authorization: none, the token of a user, or an unknown token
AuthHeaders == {0} \cup DOMAIN ShortenUsers \cup {Len(ShortenUsers) + 1}

\* req.body: none, or an object with url and vanity
NoBody == [url |-> Absent, vanity |-> Absent, present |-> FALSE]
Bodies ==
  {NoBody} \cup [url : {Absent, "https://example.org"},
                 vanity : {Absent, "", "a"},
                 present : {TRUE}]

\* req.headers['max-views']
MaxViewsHeaders == {Absent, "abc", "-1", "0"}

\* JavaScript truthiness of an optional string
Truthy(str) == str # Absent /\ str # ""

\* maxUrlViews: null, NaN or a number
NullViews == [kind |-> "null", n |-> 0]
NaNViews  == [kind |-> "NaN", n |-> 0]
Num(n)    == [kind |-> "number", n |-> n]

\* Number(header) on the headers above
NumberOf(h) ==
  CASE h = "-1" -> Num(-1)
    [] h = "0"  -> Num(0)
    [] OTHER    -> NaNViews

\* req.headers['max-views'] ? Number(req.headers['max-views']) : null
MaxUrlViewsOf(h) == IF Truthy(h) THEN NumberOf(h) ELSE NullViews

\* prisma.user.findFirst({ where: { token } })
UserByToken(tok) == IF tok \in DOMAIN users THEN tok ELSE NoUser

\* a plausible slip: the check for negative max views left out
CheckRequest_NoNegativeCheck(user, body, maxUrlViews) ==
  IF user = NoUser THEN "401 authorization incorect"
  ELSE IF ~body.present THEN "400 no body"
  ELSE IF ~Truthy(body.url) THEN "400 no url"
  ELSE IF maxUrlViews.kind = "NaN" THEN "400 invalid max views (invalid number)"
  ELSE "ok"

\* the checks between the user lookup and the vanity lookup
CheckRequest(user, body, maxUrlViews) ==
  IF user = NoUser THEN "401 authorization incorect"
  ELSE IF ~body.present THEN "400 no body"
  ELSE IF ~Truthy(body.url) THEN "400 no url"
  ELSE IF maxUrlViews.kind = "NaN" THEN "400 invalid max views (invalid number)"
  ELSE IF maxUrlViews.kind = "number" /\ maxUrlViews.n < 0
    THEN "400 invalid max views (max views < 0)"
  ELSE "ok"

NewRequest ==
  [pc |-> "new", auth |-> 0, user |-> NoUser, vanity |-> Absent,
   destination |-> Absent, maxViews |-> NullViews, response |-> "none"]

Requests == 1..NumRequests

\* the request is answered; the locals of its handler are gone
Respond(r, answer) ==
  reqs' = [reqs EXCEPT ![r] = [NewRequest EXCEPT !.pc = "done",
                                                 !.auth = reqs[r].auth,
                                                 !.response = answer]]

InitShorten ==
  /\ urls = {}
  /\ invisUrls = {}
  /\ reqs = [r \in Requests |-> NewRequest]
  /\ notified = {}
  /\ discordShorten \in BOOLEAN
  /\ users = ShortenUsers
  /\ images = <<>>
  /\ dsSize = 0
  /\ gpc = "idle"
  /\ frame = NoFrame
  /\ report = <<>>
  /\ failedQuery = "none"
  /\ parked = <<>>
  /\ MigIdle

\* a request arrives: no authorization header, or user.findFirst is issued;
\* the requests are numbered in the order of their arrival
Receive(r) ==
  /\ reqs[r].pc = "new"
  /\ \A q \in 1..(r - 1) : reqs[q].pc # "new"
  /\ \E auth \in AuthHeaders :
       IF auth = 0
         THEN Respond(r, "400 no authorization")
         ELSE reqs' = [reqs EXCEPT ![r].pc = "auth", ![r].auth = auth]
  /\ UNCHANGED <<urls, invisUrls, notified, discordShorten, migVars, statsVars>>

\* user.findFirst resolves: the checks of the request; then url.findFirst
\* by vanity, or url.create, is issued
AuthDone(r) ==
  /\ reqs[r].pc = "auth"
  /\ \E body \in Bodies, header \in MaxViewsHeaders :
       LET user == UserByToken(reqs[r].auth)
           maxUrlViews == MaxUrlViewsOf(header)
           check == CheckRequest(user, body, maxUrlViews)
       IN IF check # "ok"
            THEN Respond(r, check)
            ELSE reqs' = [reqs EXCEPT
                   ![r].pc = IF Truthy(body.vanity) THEN "vanityCheck" ELSE "create",
                   ![r].user = user,
                   ![r].vanity = body.vanity,
                   ![r].destination = body.url,
                   ![r].maxViews = maxUrlViews]
  /\ UNCHANGED <<urls, invisUrls, notified, discordShorten, migVars, statsVars>>

\* url.findFirst by vanity resolves: answered if a record has the vanity,
\* else url.create is issued
VanityDone(r) ==
  /\ reqs[r].pc = "vanityCheck"
  /\ IF \E u \in urls : u.vanity = reqs[r].vanity
       THEN Respond(r, "400 vanity already exists")
       ELSE reqs' = [reqs EXCEPT ![r].pc = "create"]
  /\ UNCHANGED <<urls, invisUrls, notified, discordShorten, migVars, statsVars>>

\* after the record and the invisible url: sendShorten is called, or the
\* request is answered
AfterCreate(r) ==
  IF discordShorten
    THEN /\ notified' = notified \cup {r}
         /\ reqs' = [reqs EXCEPT ![r].pc = "notify"]
    ELSE /\ UNCHANGED notified
         /\ Respond(r, "200")

\* url.create resolves: the record is stored under the random id of the
\* request (r stands for it); with the zws header createInvisURL is issued,
\* else AfterCreate
CreateDone(r) ==
  /\ reqs[r].pc = "create"
  /\ urls' = urls \cup {[id |-> r, vanity |-> reqs[r].vanity,
                         destination |-> reqs[r].destination,
                         userId |-> reqs[r].user, maxViews |-> reqs[r].maxViews]}
  /\ \E zws \in BOOLEAN :
       IF zws
         THEN /\ reqs' = [reqs EXCEPT ![r].pc = "invis"]
              /\ UNCHANGED notified
         ELSE AfterCreate(r)
  /\ UNCHANGED <<invisUrls, discordShorten, migVars, statsVars>>

\* createInvisURL resolves
InvisDone(r) ==
  /\ reqs[r].pc = "invis"
  /\ invisUrls' = invisUrls \cup {[urlId |-> r]}
  /\ AfterCreate(r)
  /\ UNCHANGED <<urls, discordShorten, migVars, statsVars>>

\* sendShorten resolves: the request is answered
NotifyDone(r) ==
  /\ reqs[r].pc = "notify"
  /\ Respond(r, "200")
  /\ UNCHANGED <<urls, invisUrls, notified, discordShorten, migVars, statsVars>>

\* an await of the handler rejects (url.create also when the random id is
\* taken): the handler rejects
HandlerFail(r) ==
  /\ reqs[r].pc \in {"auth", "vanityCheck", "create", "invis", "notify"}
  /\ Respond(r, "500")
  /\ UNCHANGED <<urls, invisUrls, notified, discordShorten, migVars, statsVars>>

NextShorten ==
  \E r \in Requests :
    \/ Receive(r)
    \/ AuthDone(r)
    \/ VanityDone(r)
    \/ CreateDone(r)
    \/ InvisDone(r)
    \/ NotifyDone(r)
    \/ HandlerFail(r)

----------------
(* Specifications *)

SpecMig   == InitMig /\ [][NextMig]_vars
SpecStats == InitStats /\ [][NextStats]_vars

\* ---- writers that run between the awaits of a getStats() call ----

\* t with row r put at its rank
InsertRow(t, r) ==
  LET n == Cardinality({k \in 1..Len(t) : RowRank(t[k]) <= RowRank(r)})
  IN SubSeq(t, 1, n) \o <<r>> \o SubSeq(t, n + 1, Len(t))

\* t without its k-th row
RemoveRow(t, k) == SubSeq(t, 1, k - 1) \o SubSeq(t, k + 1, Len(t))

\* a user registers
AddUser ==
  /\ \E u \in (1..ConcMaxUsers) \ DOMAIN users, name \in Usernames :
       users' = [x \in DOMAIN users \cup {u} |-> IF x = u THEN name ELSE users[x]]
  /\ UNCHANGED <<images, dsSize, gpc, frame, report, failedQuery, parked,
                 migVars, shortenVars>>

\* a user is deleted, and the images of that user with it
DeleteUser ==
  /\ \E u \in DOMAIN users :
       /\ users' = [x \in DOMAIN users \ {u} |-> users[x]]
       /\ images' = SelectSeq(images, LAMBDA r : r.userId # u)
  /\ UNCHANGED <<dsSize, gpc, frame, report, failedQuery, parked,
                 migVars, shortenVars>>

\* a user uploads an image, not viewed yet
AddImage ==
  /\ Len(images) < ConcMaxImages
  /\ \E u \in DOMAIN users, t \in Mimetypes :
       images' = InsertRow(images, [userId |-> u, mimetype |-> t, views |-> 0])
  /\ UNCHANGED <<users, dsSize, gpc, frame, report, failedQuery, parked,
                 migVars, shortenVars>>

\* an image is deleted
DeleteImage ==
  /\ \E k \in DOMAIN images : images' = RemoveRow(images, k)
  /\ UNCHANGED <<users, dsSize, gpc, frame, report, failedQuery, parked,
                 migVars, shortenVars>>

InitWrites ==
  /\ users \in {u \in UserTables : DOMAIN u \subseteq 1..ConcMaxUsers}
  /\ images \in ConcImageTables(users)
  /\ dsSize = MaxSize
  /\ gpc = "idle"
  /\ frame = NoFrame
  /\ report = <<>>
  /\ failedQuery = "none"
  /\ parked = <<>>
  /\ MigIdle
  /\ ShortenIdle

\* one getStats() call whose queries all resolve, and writers between them
NextWrites ==
  \/ StatsStart
  \/ SizeDone
  \/ ByUserDone
  \/ CountUsersDone
  \/ LookupDone
  \/ CountDone
  \/ ViewsDone
  \/ TypesDone
  \/ AddUser
  \/ DeleteUser
  \/ AddImage
  \/ DeleteImage

SpecWrites == InitWrites /\ [][NextWrites]_vars

\* two getStats() calls interleaved at their awaits, on an unchanging store
NextConc ==
  \/ NextStats
  \/ Switch

SpecConc == InitConc /\ [][NextConc]_vars

SpecShorten == InitShorten /\ [][NextShorten]_vars

\* every awaited engine call eventually resolves or rejects
EngineResponds ==
  /\ WF_vars(EnsureOk \/ EnsureFail)
  /\ WF_vars(DiagnoseOk \/ DiagnoseFail)
  /\ WF_vars(ApplyOne \/ ApplyDone \/ ApplyFail)

SpecMigLive == InitMig /\ [][NextMig]_vars /\ EngineResponds

----------------------------------------------------------------------------
(* Properties of migrations(), checked under SpecMig *)

Drifted == {"historiesDiverge", "migrationsDirectoryIsBehind"}

\* C1: applyMigrations is issued in a call if and only if the diagnosis of
\* that call is databaseIsBehind; a call on an up-to-date database only
\* diagnoses.
C1_ApplyIffBehind ==
  /\ applyIssued <=> diagnostic = "databaseIsBehind"
  /\ (startHistory = Lineage /\ pc # "idle") => ~applyIssued

C1_Witness ==
  pc = "returned" /\ applyIssued /\ diagnostic = "databaseIsBehind"

\* C2: a diagnosis that is neither up to date nor behind is fatal: nothing
\* is applied, the call does not return, the process exits with status 1.
C2_DriftIsFatal ==
  diagnostic \in Drifted =>
    ~applyIssued /\ pc = "exited" /\ exitCode = 1

\* C3: the migration session is released on every exit path of the call.
C3_SessionReleased ==
  pc \in {"returned", "exited"} => session = "stopped"

\* C4: idempotence: no migration is ever applied twice; a call on an empty
\* history that returns has applied the whole lineage, each migration once;
\* a call on an up-to-date history issues no apply and leaves the history
\* as it was.
C4_Idempotent ==
  /\ \A m \in Range(Lineage) : appliedTimes[m] <= 1
  /\ (pc = "returned" /\ startHistory = <<>>) =>
        /\ history = Lineage
        /\ appliedInCall = Len(Lineage)
  /\ (pc # "idle" /\ startHistory = Lineage) =>
        /\ history = Lineage
        /\ ~applyIssued
        /\ appliedInCall = 0

C4_Witness ==
  /\ calls = 2
  /\ pc = "returned"
  /\ startHistory = Lineage
  /\ \A m \in Range(Lineage) : appliedTimes[m] = 1

\* C5: a call in which a step failed ends in process.exit(1); a call in
\* which no step failed never calls exit and returns.
C5_ExitIffFailure ==
  /\ failedStep # "none" <=> pc = "exited"
  /\ pc = "exited" => exitCode = 1
  /\ pc # "exited" => exitCode = -1
  /\ pc = "returned" => failedStep = "none"

C5_Witness ==
  pc = "exited" /\ failedStep = "diagnose" /\ StartsWith(errorMsg, P1001)

\* C6: an error whose message starts with P1001 is reported by the
\* unreachable-database message naming DATABASE_URL and not by the generic
\* message; any other error is reported by the generic message and the
\* error itself, and not by the unreachable-database message.
C6_Classification ==
  pc = "exited" =>
    LET errors == {e \in Range(log) : e.level = "error"} IN
      IF StartsWith(errorMsg, P1001)
        THEN errors = {UnreachableEntry(databaseUrl)}
        ELSE errors = {GenericEntry, DetailEntry(errorMsg)}

C6_Witness ==
  /\ pc = "exited"
  /\ StartsWith(errorMsg, P1001)
  /\ UnreachableEntry(databaseUrl) \in Range(log)

\* C7: the history is only ever extended at its end, and a history that is
\* a prefix of the lineage stays a prefix of the lineage.
C7_AppendOnly ==
  [][/\ IsPrefix(history, history')
     /\ IsPrefix(history, Lineage) => IsPrefix(history', Lineage)]_vars

C7_Witness ==
  /\ calls >= 2
  /\ appliedInCall >= 1
  /\ Len(startHistory) >= 1
  /\ IsPrefix(history, Lineage)

\* C8: when the apply fails, what it had applied stays applied and the
\* process exits with status 1.
C8_NoRollback ==
  (pc = "exited" /\ failedStep = "apply") =>
    /\ exitCode = 1
    /\ IsPrefix(startHistory, history)
    /\ Len(history) = Len(startHistory) + appliedInCall

C8_Witness ==
  /\ pc = "exited"
  /\ failedStep = "apply"
  /\ appliedInCall >= 1
  /\ Pending(history) # <<>>

------------------------------------------------------------\* C15: the steps of a call run in order: the diagnosis is issued only
\* after ensureDatabaseExists resolved, the apply only after the diagnosis
\* resolved, and up to the end of the diagnosis the history is untouched.
C15_StepOrder ==
  /\ pc \in {"diagnose", "apply"} => dbExists
  /\ diagnostic # "none" => dbExists
  /\ applyIssued => diagnostic # "none"
  /\ pc \in {"ensure", "diagnose"} => (history = startHistory /\ ~applyIssued)
  /\ ~applyIssued => (history = startHistory /\ appliedInCall = 0)

\* the database did not exist, was created, diagnosed, and the apply runs
C15_Witness ==
  /\ pc = "apply"
  /\ applyIssued
  /\ appliedInCall >= 1
  /\ startHistory = <<>>
  /\ dbExists

Awaiting == {"ensure", "diagnose", "apply"}

\* C18: a call whose engine calls all respond reaches a return or an exit;
\* and the call leaves an await only by the response to it: nothing else,
\* no timeout, moves it on.
C18_NoTimeout ==
  /\ [](pc \in Awaiting => <>(pc \in {"returned", "exited"}))
  /\ [][(pc \in Awaiting /\ pc' # pc) =>
          (EnsureOk \/ EnsureFail \/ DiagnoseOk \/ DiagnoseFail \/ ApplyDone \/ ApplyFail)]_vars

C18_Witness ==
  /\ pc = "returned"
  /\ calls = 1
  /\ appliedInCall = NumMigrations

----------------
(* Properties of getStats(), checked under SpecStats *)

Owners == {images[i].userId : i \in DOMAIN images}
Types  == {images[i].mimetype : i \in DOMAIN images}
OwnedBy(u) == Cardinality({i \in DOMAIN images : images[i].userId = u})
OfType(t)  == Cardinality({i \in DOMAIN images : images[i].mimetype = t})

\* C9: the report of a call on an unchanging store is the reference report:
\* count and count_users are the table sizes, count_by_user has one entry
\* per owner with the owner's username and object count, types_count one
\* entry per content type with its object count; the empty store gives
\* zeros and empty lists.
C9_ReferenceReport ==
  gpc = "done" =>
    LET r == report[1] IN
      /\ r.count = Cardinality(DOMAIN images)
      /\ r.count_users = Cardinality(DOMAIN users)
      /\ r.size_num = dsSize
      /\ Len(r.count_by_user) = Cardinality(Owners)
      /\ \E f \in Perms(Owners) :
           \A k \in 1..Len(f) :
             r.count_by_user[k] = [username |-> users[f[k]], count |-> OwnedBy(f[k])]
      /\ Len(r.types_count) = Cardinality(Types)
      /\ \E g \in Perms(Types) :
           \A k \in 1..Len(g) :
             r.types_count[k] = [mimetype |-> g[k], count |-> OfType(g[k])]
      /\ (users = <<>> /\ images = <<>> /\ dsSize = 0) =>
           /\ r.size_num = 0 /\ r.count = 0 /\ r.count_users = 0
           /\ r.views_count = 0
           /\ r.count_by_user = <<>> /\ r.types_count = <<>>

\* two objects of A, both png, and one object of B, json
C9_Witness ==
  /\ gpc = "done"
  /\ Cardinality(DOMAIN users) = 2
  /\ report[1].count = 3
  /\ report[1].count_users = 2
  /\ report[1].count_by_user = << [username |-> "A", count |-> 2],
                                  [username |-> "B", count |-> 1] >>
  /\ report[1].types_count = << [mimetype |-> "png", count |-> 2],
                                [mimetype |-> "json", count |-> 1] >>

NonIncreasing(s) == \A k \in 1..(Len(s) - 1) : s[k].count >= s[k + 1].count

\* C10: count_by_user and types_count of every report are sorted by count,
\* non-increasing, whatever the order of the grouping rows.
C10_SortedDescending ==
  gpc = "done" =>
    /\ NonIncreasing(report[1].count_by_user)
    /\ NonIncreasing(report[1].types_count)

\* both groupings returned their rows in ascending order
C10_Witness ==
  /\ gpc = "done"
  /\ Len(frame.byUser) = 2 /\ frame.byUser[1].count < frame.byUser[2].count
  /\ Len(frame.typesCount) = 2 /\ frame.typesCount[1].count < frame.typesCount[2].count

RECURSIVE ViewsWeighted(_)
\* the sum of the view counters, taken counter value by counter value
ViewsWeighted(v) ==
  IF v = 0 THEN 0
  ELSE v * Cardinality({i \in DOMAIN images : images[i].views = v}) + ViewsWeighted(v - 1)

\* C11: views_count is the sum of the view counters of all objects, and 0
\* (not null) when there are no objects.
C11_ViewsSum ==
  gpc = "done" =>
    /\ report[1].views_count = ViewsWeighted(MaxViews)
    /\ images = <<>> => report[1].views_count = 0

\* views spread unevenly: two objects viewed, one not
C11_Witness ==
  /\ gpc = "done"
  /\ report[1].views_count = 2
  /\ \E i \in DOMAIN images : images[i].views = 0

\* C12: when a sub-query fails the call fails and no report, not even a
\* partial one, is returned; a call that returned a report had no failure.
C12_NoPartialReport ==
  /\ failedQuery # "none" => (gpc = "failed" /\ report = <<>>)
  /\ gpc = "failed" => (failedQuery # "none" /\ report = <<>>)
  /\ gpc = "done" => (failedQuery = "none" /\ report # <<>>)

\* the last sub-query fails, after everything else was gathered
C12_Witness ==
  gpc = "failed" /\ failedQuery = "types" /\ images # <<>>

\* C13: no step of a getStats() call, successful or failed, changes the
\* users, the images or the datasource.
C13_ReadOnly ==
  [][users' = users /\ images' = images /\ dsSize' = dsSize]_vars

C13_Witness ==
  gpc = "done" /\ images # <<>> /\ report[1].views_count >= 1

----------------------------------------------------------------------------
(* Properties of interleaved getStats() calls, checked under SpecConc *)

\* the report of a call that runs alone on the current store and whose
\* groupings return the rows ru and rt
SoloReport(ru, rt) ==
  [size          |-> bytesToHuman(dsSize),
   size_num      |-> dsSize,
   count         |-> Cardinality(DOMAIN images),
   count_by_user |-> SortByCount([k \in 1..Len(ru) |->
                       [username |-> users[ru[k].userId], count |-> ru[k].count]]),
   count_users   |-> Cardinality(DOMAIN users),
   views_count   |-> ViewsOrZero(AggregateViews(images)),
   types_count   |-> SortByCount(TypesCountOf(rt))]

BothCalls == {RunningCall} \cup Range(parked)

\* C14: whatever the interleaving of two calls on an unchanging store, each
\* returns the report it would return alone for the rows its own groupings
\* gave.
C14_Independent ==
  \A c \in BothCalls :
    c.gpc = "done" =>
      /\ c.frame.byUser \in Perms(GroupByUserId(images))
      /\ c.frame.typesCount \in Perms(GroupByMimetype(images))
      /\ c.report = <<SoloReport(c.frame.byUser, c.frame.typesCount)>>

\* one call returned while the other is suspended in the middle of its
\* lookup loop, and their groupings returned different row orders
C14_Witness ==
  /\ gpc = "done"
  /\ Len(frame.byUser) = 2
  /\ parked[1].gpc = "lookup"
  /\ parked[1].frame.i = 1
  /\ parked[1].frame.byUser # frame.byUser

\* the entries of s with count c, in their order in s
WithCount(s, c) == SelectSeq(s, LAMBDA e : e.count = c)

\* out holds the entries of in, those of equal count in their order in in
TiesKeepOrder(in, out) ==
  \A c \in 0..MaxImages : WithCount(out, c) = WithCount(in, c)

\* C17: the sort is stable: entries of equal count come out in the order
\* the grouping gave them; and two calls over the same data whose groupings
\* gave the same rows return the lists in the same order.
C17_StableSort ==
  /\ \A c \in BothCalls :
       c.gpc = "done" =>
         /\ TiesKeepOrder(c.frame.count_by_user, c.report[1].count_by_user)
         /\ TiesKeepOrder(TypesCountOf(c.frame.typesCount), c.report[1].types_count)
  /\ \A c, d \in BothCalls :
       (/\ c.gpc = "done" /\ d.gpc = "done"
        /\ c.frame.byUser = d.frame.byUser
        /\ c.frame.typesCount = d.frame.typesCount) =>
         /\ c.report[1].count_by_user = d.report[1].count_by_user
         /\ c.report[1].types_count = d.report[1].types_count

\* two owners with different names and one object each, of different types:
\* a tie in both lists, returned by both calls in the grouping's order
C17_Witness ==
  /\ gpc = "done"
  /\ parked[1].gpc = "done"
  /\ Len(frame.byUser) = 2
  /\ frame.byUser[1].count = frame.byUser[2].count
  /\ users[frame.byUser[1].userId] # users[frame.byUser[2].userId]
  /\ Len(frame.typesCount) = 2
  /\ frame.byUser = parked[1].frame.byUser
  /\ frame.typesCount = parked[1].frame.typesCount

----------------------------------------------------------------------------
(* Properties of getStats() under concurrent writes, checked under SpecWrites *)

\* C16: with users and images written and deleted between its sub-queries,
\* and every query answered, the call never fails: every owner the grouping
\* produced is found by its lookup, and the call returns a report.
C16_DriftNeverFails ==
  /\ gpc # "failed"
  /\ failedQuery = "none"

----------------------------------------------------------------------------
(* Properties of the shorten handler, checked under SpecShorten *)

\* C19: no two url records share a vanity that is not null, whatever the
\* interleaving of the requests; and a request answered 'vanity already
\* exists' created no record.
C19_VanityUnique ==
  /\ \A u, v \in urls : (u.vanity # Absent /\ u.vanity = v.vanity) => u = v
  /\ \A r \in Requests :
       reqs[r].response = "400 vanity already exists" =>
         ~\E u \in urls : u.id = r

Rejections ==
  { "400 no authorization", "401 authorization incorect", "400 no body",
    "400 no url", "400 invalid max views (invalid number)",
    "400 invalid max views (max views < 0)", "400 vanity already exists" }

\* what a rejected request left behind: nothing
NothingStored(r) ==
  /\ ~\E u \in urls : u.id = r
  /\ ~\E i \in invisUrls : i.urlId = r
  /\ r \notin notified

\* C20: a rejected request stores no url record and sends no notification,
\* and the step that rejects it leaves the url table and the notifications
\* as they were; a record exists only for a request that passed every
\* check, is owned by the user of the request's token, and has maxViews
\* null or a number >= 0; a request answered 200 has exactly one record.
C20_RejectedChangesNothing ==
  /\ [](/\ \A r \in Requests :
             /\ reqs[r].response \in Rejections => NothingStored(r)
             /\ reqs[r].pc \in {"new", "auth", "vanityCheck", "create"} => NothingStored(r)
             /\ reqs[r].response = "200" => Cardinality({u \in urls : u.id = r}) = 1
             /\ r \in notified => (discordShorten /\ \E u \in urls : u.id = r)
        /\ \A u \in urls :
             /\ u.id \in Requests
             /\ reqs[u.id].response \in {"none", "200", "500"}
             /\ u.userId \in DOMAIN users
             /\ u.userId = UserByToken(reqs[u.id].auth)
             /\ Truthy(u.destination)
             /\ u.maxViews.kind = "null" \/ (u.maxViews.kind = "number" /\ u.maxViews.n >= 0))
  /\ [][\A r \in Requests :
          (reqs[r].response = "none" /\ reqs'[r].response \in Rejections) =>
            (urls' = urls /\ invisUrls' = invisUrls /\ notified' = notified)]_vars

\* one request was accepted with max-views 0 and notified, another was
\* rejected for a negative max-views
C20_Witness ==
  /\ discordShorten
  /\ \E r, q \in Requests :
       /\ reqs[r].response = "200"
       /\ r \in notified
       /\ \E u \in urls : u.id = r /\ u.maxViews = Num(0)
       /\ reqs[q].response = "400 invalid max views (max views < 0)"

====
